---- MODULE Spec2Model ----
(***************************************************************************)
(* A model of hiss, the bridge between an asyncio host and the tabby TDS   *)
(* client: the connection registry and its two lock levels (src/lib.rs),   *)
(* the result collector (src/row_writer.rs) and the statement executor.    *)
(*                                                                         *)
(* Spec          the connection registry and the concurrency bridge        *)
(* SpecCollector one batch's event stream into a MultiSetWriter, then      *)
(*               finalize and the result shaping of do_query / do_execute  *)
(* SpecExecute   do_execute's classification of a statement text           *)
(***************************************************************************)
EXTENDS Integers, Sequences, FiniteSets, TLC

VARIABLES
    NEXT_ID,       \* lib.rs:20   static NEXT_ID: AtomicU64
    connections,   \* lib.rs:24   Bridge.connections: handle -> client
    regLock,       \* lib.rs:24   the parking_lot Mutex around the map: its holder, or 0
    clientLock,    \* lib.rs:24   the tokio Mutex around each client: its holder, or 0
    task,          \* lib.rs:223  the futures spawned on BRIDGE.rt, one per slot
    nclients,      \* history: the number of Client objects created so far
    assigned,      \* history: the handles fetch_add has returned, in order
    closed         \* history: the handles do_close has removed from the map

bridgeVars == <<NEXT_ID, connections, regLock, clientLock, task, nclients, assigned, closed>>

VARIABLES
    phase,         \* where the batch under study stands
    completed,     \* row_writer.rs:59  MultiSetWriter.completed
    current,       \* row_writer.rs:60-61  current_cols / current, or NoTable
    log,           \* history: the events the protocol client delivered
    sets,          \* lib.rs:127  the tables finalize() returned
    reply          \* what do_query / do_execute hand back

collVars == <<phase, completed, current, log, sets, reply>>

VARIABLES
    sql,           \* lib.rs:146  the sql argument of the call under study
    needs_rowcount,\* lib.rs:149
    batch_sql,     \* lib.rs:154
    message        \* lib.rs:175-179  the text do_execute returns

execVars == <<sql, needs_rowcount, batch_sql, message>>

VARIABLES
    params,        \* lib.rs:262  substitute_params' params argument
    result,        \* lib.rs:263  substitute_params' result
    subst_i,       \* lib.rs:264  the index the loop comes to next, counting down (0: done)
    literal        \* lib.rs:267  the literal of the iteration just run

substVars == <<params, result, subst_i, literal>>

VARIABLES
    args_list,     \* lib.rs:348  native_execute_many's args_list argument
    sqls,          \* lib.rs:192  the statements `for sql in sqls` has not taken yet
    many_pc,       \* where do_execute_many stands
    submitted,     \* history: the texts handed to batch_into, in order
    many_result    \* what do_execute_many returned

manyVars == <<args_list, sqls, many_pc, submitted, many_result>>

VARIABLES
    compact_val,   \* types.rs:92  compact_value_to_py's val argument
    py_object      \* types.rs:92  the Python object it returns

typesVars == <<compact_val, py_object>>

\* The state of the calls studied on their own
callVars == <<substVars, manyVars, typesVars>>

vars == <<bridgeVars, collVars, execVars, callVars>>

(***************************************************************************)
(* Bounds                                                                  *)
(***************************************************************************)
NumTasks == 2      \* operations pending on the runtime at one time
MaxConnects == 2   \* successful connects modelled (caps NEXT_ID)
MaxBatches == 2    \* statements of one execute_many call
MaxEvents == 4     \* events the protocol client delivers in one batch

Tasks == 1..NumTasks
Handles == 1..MaxConnects
Clients == 1..MaxConnects

(***************************************************************************)
(* The connection registry and the concurrency bridge (src/lib.rs)         *)
(*                                                                         *)
(* A task is one future spawned on BRIDGE.rt by spawn_future.  Its pc:     *)
(*   handshake    do_connect awaits TcpStream::connect / Client::connect   *)
(*   registry     about to take BRIDGE.connections.lock()                  *)
(*   in_registry  holds the registry lock                                  *)
(*   lock         holds a clone of the client's Arc, awaits conn.lock()    *)
(*   batch        holds the client lock, awaits batch_into                 *)
(*   done         set_result / set_exception handed to the event loop      *)
(* do_query, do_execute and do_execute_raw share one skeleton (get_conn,   *)
(* conn.lock().await, one batch_into, drop): they are the op "statement".  *)
(***************************************************************************)
BatchOps == {"statement", "execute_many"}

NoResult == [kind |-> "pending", val |-> "", arg |-> 0]

\* spawn_future, lines 229-243: loop.call_soon_threadsafe(future.set_result, val)
set_result(v, id) == [kind |-> "result", val |-> v, arg |-> id]

\* spawn_future, lines 245-254: loop.call_soon_threadsafe(future.set_exception, e)
set_exception(e, id) == [kind |-> "exception", val |-> e, arg |-> id]

IdleTask == [pc |-> "idle", op |-> "none", arg |-> 0, conn |-> 0, remaining |-> 0,
             result |-> NoResult]

\* A finished task keeps only what its future was resolved with
Resolved(r) == [IdleTask EXCEPT !.pc = "done", !.result = r]

\* get_conn, line 118: PyRuntimeError("Connection is closed")
ConnectionClosed == "RuntimeError: Connection is closed"

\* errors.rs:4-11: the Python exception a tabby error becomes
to_pyerr(e) ==
    CASE e = "Server" -> "RuntimeError: tabby"
      [] e = "Io" -> "ConnectionError: tabby"
      [] OTHER -> "RuntimeError: tabby"

\* tabby::error::Error: Server, Io, and any other variant
TabbyErrors == {"Server", "Io", "Protocol"}

Busy(t) == task[t].pc # "idle"

\* The connects that may still create a client
ConnectBudget ==
    nclients + Cardinality({t \in Tasks : task[t].pc = "handshake"}) < MaxConnects

\* native_connect: spawn_future(py, do_connect(dsn), convert_id)
native_connect(t) ==
    /\ task[t].pc = "idle"
    /\ \A u \in Tasks : u < t => Busy(u)
    /\ ConnectBudget
    /\ task' = [task EXCEPT ![t] = [IdleTask EXCEPT !.pc = "handshake", !.op = "connect"]]
    /\ UNCHANGED <<collVars, execVars, callVars, NEXT_ID, connections, regLock, clientLock,
                   nclients, assigned, closed>>

\* native_query / native_execute / native_execute_raw / native_execute_many /
\* native_close: spawn_future(py, do_<op>(conn_id, ..), convert)
native_op(t, o, h) ==
    /\ task[t].pc = "idle"
    /\ \A u \in Tasks : u < t => Busy(u)
    /\ task' = [task EXCEPT ![t] = [IdleTask EXCEPT !.pc = "registry", !.op = o, !.arg = h]]
    /\ UNCHANGED <<collVars, execVars, callVars, NEXT_ID, connections, regLock, clientLock,
                   nclients, assigned, closed>>

\* do_connect, lines 93-102: TcpStream::connect, set_nodelay or Client::connect
\* fails with a PyConnectionError
do_connect_fail(t) ==
    /\ task[t].pc = "handshake"
    /\ task' = [task EXCEPT ![t] = Resolved(set_exception("ConnectionError: connect failed", 0))]
    /\ UNCHANGED <<collVars, execVars, callVars, NEXT_ID, connections, regLock, clientLock,
                   nclients, assigned, closed>>

\* Mutant of fetch_add: the counter is read but not advanced
fetch_add_stuck(n) == n

\* NEXT_ID.fetch_add(1, Ordering::Relaxed): the value the counter takes
fetch_add(n) == n + 1

\* do_connect, lines 93-104: the handshake succeeds, a Client exists, and the
\* handle is drawn from NEXT_ID
do_connect_ok(t) ==
    /\ task[t].pc = "handshake"
    /\ nclients < MaxConnects
    /\ NEXT_ID \in Handles
    /\ nclients' = nclients + 1
    /\ NEXT_ID' = fetch_add(NEXT_ID)
    /\ assigned' = Append(assigned, NEXT_ID)
    /\ task' = [task EXCEPT ![t].pc = "registry", ![t].arg = NEXT_ID,
                            ![t].conn = nclients + 1]
    /\ UNCHANGED <<collVars, execVars, callVars, connections, regLock, clientLock, closed>>

\* BRIDGE.connections.lock(): the parking_lot mutex is taken when free
connections_lock(t) ==
    /\ task[t].pc = "registry"
    /\ regLock = 0
    /\ regLock' = t
    /\ task' = [task EXCEPT ![t].pc = "in_registry"]
    /\ UNCHANGED <<collVars, execVars, callVars, NEXT_ID, connections, clientLock,
                   nclients, assigned, closed>>

\* HashMap::insert(id, client)
Insert(m, id, c) == [h \in DOMAIN m \cup {id} |-> IF h = id THEN c ELSE m[h]]

\* do_connect, lines 105-109: insert under the registry lock, return Ok(id)
do_connect_insert(t) ==
    /\ task[t].pc = "in_registry"
    /\ task[t].op = "connect"
    /\ connections' = Insert(connections, task[t].arg, task[t].conn)
    /\ regLock' = 0
    /\ task' = [task EXCEPT ![t] = Resolved(set_result("id", task[t].arg))]
    /\ UNCHANGED <<collVars, execVars, callVars, NEXT_ID, clientLock, nclients, assigned, closed>>

\* get_conn, lines 112-119: the map's answer for a handle (0: not found)
Lookup(m, id) == IF id \in DOMAIN m THEN m[id] ELSE 0

\* get_conn(id)? fails: the operation returns the error before any batch
get_conn_err(t) ==
    /\ task[t].pc = "in_registry"
    /\ task[t].op \in BatchOps
    /\ Lookup(connections, task[t].arg) = 0
    /\ regLock' = 0
    /\ task' = [task EXCEPT ![t] = Resolved(set_exception(ConnectionClosed, task[t].arg))]
    /\ UNCHANGED <<collVars, execVars, callVars, NEXT_ID, connections, clientLock,
                   nclients, assigned, closed>>

\* Mutant of get_conn_ok: the guard of the map outlives the lookup
get_conn_ok_keeps_registry(t, n) ==
    /\ task[t].pc = "in_registry"
    /\ task[t].op \in BatchOps
    /\ task[t].op = "statement" => n = 1
    /\ Lookup(connections, task[t].arg) # 0
    /\ task' = [task EXCEPT ![t] =
           IF n = 0 THEN Resolved(set_result("value", 0))
           ELSE [task[t] EXCEPT !.pc = "lock", !.remaining = n,
                                !.conn = Lookup(connections, task[t].arg)]]
    /\ UNCHANGED <<collVars, execVars, callVars, NEXT_ID, connections, regLock, clientLock,
                   nclients, assigned, closed>>

\* let conn = get_conn(id)? succeeds.  n is the number of batches the operation
\* goes on to run: 1 for do_query / do_execute / do_execute_raw, sqls.len() for
\* do_execute_many, whose `for sql in sqls` ends at once when sqls is empty
get_conn_ok(t, n) ==
    /\ task[t].pc = "in_registry"
    /\ task[t].op \in BatchOps
    /\ task[t].op = "statement" => n = 1
    /\ Lookup(connections, task[t].arg) # 0
    /\ regLock' = 0
    /\ task' = [task EXCEPT ![t] =
           IF n = 0 THEN Resolved(set_result("value", 0))
           ELSE [task[t] EXCEPT !.pc = "lock", !.remaining = n,
                                !.conn = Lookup(connections, task[t].arg)]]
    /\ UNCHANGED <<collVars, execVars, callVars, NEXT_ID, connections, clientLock,
                   nclients, assigned, closed>>

\* Mutant of LockAvailable: lock() never waits
LockAvailable_nowait(c) == TRUE

\* Mutant of LockAvailable: one mutex shared by every client
LockAvailable_global(c) == \A d \in Clients : clientLock[d] = 0

\* conn.lock().await can complete: the tokio mutex of client c is free
LockAvailable(c) == clientLock[c] = 0

\* let mut c = conn.lock().await
conn_lock(t) ==
    /\ task[t].pc = "lock"
    /\ LockAvailable(task[t].conn)
    /\ clientLock' = [clientLock EXCEPT ![task[t].conn] = t]
    /\ task' = [task EXCEPT ![t].pc = "batch"]
    /\ UNCHANGED <<collVars, execVars, callVars, NEXT_ID, connections, regLock,
                   nclients, assigned, closed>>

\* Mutant of batch_ok: the guard is not dropped when the batch has returned
batch_ok_keeps_guard(t) ==
    /\ task[t].pc = "batch"
    /\ task' = [task EXCEPT ![t] =
           IF task[t].remaining > 1
           THEN [task[t] EXCEPT !.pc = "lock", !.remaining = task[t].remaining - 1]
           ELSE Resolved(set_result("value", 0))]
    /\ UNCHANGED <<collVars, execVars, callVars, NEXT_ID, connections, regLock, clientLock,
                   nclients, assigned, closed>>

\* c.batch_into(..).await returns Ok and the guard is dropped; do_execute_many
\* goes round its loop while statements are left
batch_ok(t) ==
    /\ task[t].pc = "batch"
    /\ clientLock' = [clientLock EXCEPT ![task[t].conn] = 0]
    /\ task' = [task EXCEPT ![t] =
           IF task[t].remaining > 1
           THEN [task[t] EXCEPT !.pc = "lock", !.remaining = task[t].remaining - 1]
           ELSE Resolved(set_result("value", 0))]
    /\ UNCHANGED <<collVars, execVars, callVars, NEXT_ID, connections, regLock,
                   nclients, assigned, closed>>

\* Mutant of batch_err: the guard outlives the failed operation
batch_err_keeps_guard(t, e) ==
    /\ task[t].pc = "batch"
    /\ task' = [task EXCEPT ![t] = Resolved(set_exception(to_pyerr(e), task[t].arg))]
    /\ UNCHANGED <<collVars, execVars, callVars, NEXT_ID, connections, regLock, clientLock,
                   nclients, assigned, closed>>

\* c.batch_into(..).await.map_err(to_pyerr)? returns Err: the early return
\* drops the guard and the operation ends with the error
batch_err(t, e) ==
    /\ task[t].pc = "batch"
    /\ clientLock' = [clientLock EXCEPT ![task[t].conn] = 0]
    /\ task' = [task EXCEPT ![t] = Resolved(set_exception(to_pyerr(e), task[t].arg))]
    /\ UNCHANGED <<collVars, execVars, callVars, NEXT_ID, connections, regLock,
                   nclients, assigned, closed>>

\* Mutant of Remove: the map is emptied
Remove_all(m, id) == [h \in {} |-> 0]

\* Mutant of Remove: the entry stays in the map
Remove_nothing(m, id) == m

\* HashMap::remove(&id)
Remove(m, id) == [h \in DOMAIN m \ {id} |-> m[h]]

\* Mutant of do_close: closing also fails the operations in flight on the handle
do_close_cancelling(t) ==
    /\ task[t].pc = "in_registry"
    /\ task[t].op = "close"
    /\ connections' = Remove(connections, task[t].arg)
    /\ closed' = IF task[t].arg \in DOMAIN connections
                 THEN closed \cup {task[t].arg} ELSE closed
    /\ regLock' = 0
    /\ clientLock' = [c \in Clients |->
           IF clientLock[c] # 0 /\ task[clientLock[c]].arg = task[t].arg THEN 0
           ELSE clientLock[c]]
    /\ task' = [u \in Tasks |->
           IF u = t THEN Resolved(set_result("value", 0))
           ELSE IF task[u].pc \in {"lock", "batch"} /\ task[u].arg = task[t].arg
           THEN Resolved(set_exception(ConnectionClosed, task[u].arg))
           ELSE task[u]]
    /\ UNCHANGED <<collVars, execVars, callVars, NEXT_ID, nclients, assigned>>

\* do_close, lines 200-203
do_close(t) ==
    /\ task[t].pc = "in_registry"
    /\ task[t].op = "close"
    /\ connections' = Remove(connections, task[t].arg)
    /\ closed' = IF task[t].arg \in DOMAIN connections
                 THEN closed \cup {task[t].arg} ELSE closed
    /\ regLock' = 0
    /\ task' = [task EXCEPT ![t] = Resolved(set_result("value", 0))]
    /\ UNCHANGED <<collVars, execVars, callVars, NEXT_ID, clientLock, nclients, assigned>>

\* The caller has awaited the future: the slot is free for the next operation
Awaited(t) ==
    /\ task[t].pc = "done"
    /\ task' = [task EXCEPT ![t] = IdleTask]
    /\ UNCHANGED <<collVars, execVars, callVars, NEXT_ID, connections, regLock, clientLock,
                   nclients, assigned, closed>>

(***************************************************************************)
(* The result collector (src/row_writer.rs) and the shaping of a batch's   *)
(* tables by do_query and do_execute (src/lib.rs)                          *)
(*                                                                         *)
(* A table is a column list with its PyRowWriter:                          *)
(*   [cols, col_count, values, current_row]                                *)
(* current is <<>> (current_cols and current are None) or <<table>>.       *)
(***************************************************************************)
\* row_writer.rs:4-17: the CompactValue variants the model delivers
Null == [tag |-> "Null", v |-> 0]
I64(n) == [tag |-> "I64", v |-> n]
CompactValues == {Null, I64(1), I64(2)}

\* The column lists on_metadata is called with
ColumnLists == {<<>>, <<"a">>, <<"__rc__">>, <<"a", "b">>}

\* The column_index argument of write_*
ColumnIndexes == {0, 1}

\* PyRowWriter::new(col_count), with the ColumnInfo list kept beside it
NewTable(columns) ==
    [cols |-> columns, col_count |-> Len(columns), values |-> <<>>, current_row |-> <<>>]

\* PyRowWriter::row_count
row_count(w) == IF w.col_count = 0 THEN 0 ELSE Len(w.values) \div w.col_count

\* PyRowWriter::get(row, col): &self.values[row * self.col_count + col]
get(w, row, col) == w.values[row * w.col_count + col + 1]

\* PyRowWriter::finish_row: self.values.append(&mut self.current_row)
finish_row(w) == [w EXCEPT !.values = w.values \o w.current_row, !.current_row = <<>>]

\* Mutant of push: the value replaces the current row instead of extending it
push_overwrites(w, val) == [w EXCEPT !.current_row = <<val>>]

\* Mutant of push: the value goes to the front of the current row
push_front(w, val) == [w EXCEPT !.current_row = <<val>> \o w.current_row]

\* PyRowWriter::push
push(w, val) == [w EXCEPT !.current_row = Append(w.current_row, val)]

\* Mutant of CloseCurrent: the open result set is dropped, not pushed
CloseCurrent_drops(done, cur) == done

\* on_metadata lines 79-81 and finalize lines 70-72: the open result set, if
\* any, moves to the completed list
CloseCurrent(done, cur) == done \o cur

\* MultiSetWriter::on_metadata
on_metadata(columns) ==
    /\ phase = "events"
    /\ Len(log) < MaxEvents
    /\ completed' = CloseCurrent(completed, current)
    /\ current' = <<NewTable(columns)>>
    /\ log' = Append(log, [ev |-> "metadata", cols |-> columns, col |-> 0, val |-> Null])
    /\ UNCHANGED <<bridgeVars, callVars, execVars, phase, sets, reply>>

\* MultiSetWriter::write_null .. write_guid: _col is not read, the value goes
\* to the end of the current row; without an open result set nothing happens
write(col, val) ==
    /\ phase = "events"
    /\ Len(log) < MaxEvents
    /\ current' = IF current = <<>> THEN current ELSE <<push(current[1], val)>>
    /\ log' = Append(log, [ev |-> "write", cols |-> <<>>, col |-> col, val |-> val])
    /\ UNCHANGED <<bridgeVars, callVars, execVars, phase, completed, sets, reply>>

\* MultiSetWriter::on_row_done
on_row_done ==
    /\ phase = "events"
    /\ Len(log) < MaxEvents
    /\ current' = IF current = <<>> THEN current ELSE <<finish_row(current[1])>>
    /\ log' = Append(log, [ev |-> "row_done", cols |-> <<>>, col |-> 0, val |-> Null])
    /\ UNCHANGED <<bridgeVars, callVars, execVars, phase, completed, sets, reply>>

\* MultiSetWriter::on_info: the message is discarded
on_info ==
    /\ phase = "events"
    /\ UNCHANGED <<bridgeVars, callVars, execVars, phase, completed, current, log, sets, reply>>

\* MultiSetWriter::finalize, called once batch_into has returned Ok
finalize ==
    /\ phase = "events"
    /\ sets' = CloseCurrent(completed, current)
    /\ completed' = <<>>
    /\ current' = <<>>
    /\ phase' = "finalized"
    /\ UNCHANGED <<bridgeVars, callVars, execVars, log, reply>>

\* Mutant of FirstWithColumns: the first table is taken, columns or not
FirstTable(tables) == IF tables = <<>> THEN 0 ELSE 1

\* do_query, lines 128-131: the index of the first table whose cols is not
\* empty (0: the loop ends without returning)
FirstWithColumns(tables) ==
    IF \E i \in 1..Len(tables) : tables[i].cols # <<>>
    THEN CHOOSE i \in 1..Len(tables) :
            /\ tables[i].cols # <<>>
            /\ \A j \in 1..(i - 1) : tables[j].cols = <<>>
    ELSE 0

\* do_query, lines 135-140: values copied cell by cell through get(r, c)
CopyCells(w) == [k \in 1..(row_count(w) * w.col_count) |->
                    get(w, (k - 1) \div w.col_count, (k - 1) % w.col_count)]

\* QueryResult: None, or Some((col_names, values, row_count, col_count))
None == [some |-> FALSE]
Some(w) == [some |-> TRUE, col_names |-> w.cols, values |-> CopyCells(w),
            row_count |-> row_count(w), col_count |-> w.col_count]

\* do_query, lines 127-143
do_query_return ==
    /\ phase = "finalized"
    /\ reply' = LET i == FirstWithColumns(sets) IN
                IF i = 0 THEN None ELSE Some(sets[i])
    /\ phase' = "query_done"
    /\ UNCHANGED <<bridgeVars, callVars, execVars, completed, current, log, sets>>

CollectorInit ==
    /\ phase = "events"
    /\ completed = <<>>
    /\ current = <<>>
    /\ log = <<>>
    /\ sets = <<>>
    /\ reply = None

(***************************************************************************)
(* do_execute (src/lib.rs:146-180).  A statement text is a sequence of     *)
(* characters, each a one-character string.                                *)
(***************************************************************************)
\* char::is_whitespace, for the characters of the model
WhiteSpace == {" ", "\t", "\n"}

LowerCase == <<"a", "c", "d", "e", "g", "i", "l", "m", "n", "p", "r", "s", "t", "u", "x">>
UpperCase == <<"A", "C", "D", "E", "G", "I", "L", "M", "N", "P", "R", "S", "T", "U", "X">>

\* char::to_uppercase, for the characters of the model
UpperChar(c) ==
    IF \E i \in DOMAIN LowerCase : LowerCase[i] = c
    THEN UpperCase[CHOOSE i \in DOMAIN LowerCase : LowerCase[i] = c]
    ELSE c

\* str::to_uppercase
to_uppercase(s) == [i \in DOMAIN s |-> UpperChar(s[i])]

\* str::trim: leading and trailing whitespace removed
trim(s) ==
    LET keep == {i \in DOMAIN s : s[i] \notin WhiteSpace} IN
    IF keep = {} THEN <<>>
    ELSE SubSeq(s, CHOOSE i \in keep : \A j \in keep : i <= j,
                   CHOOSE i \in keep : \A j \in keep : j <= i)

\* str::starts_with
starts_with(s, prefix) ==
    Len(s) >= Len(prefix) /\ SubSeq(s, 1, Len(prefix)) = prefix

INSERT == <<"I", "N", "S", "E", "R", "T">>
UPDATE == <<"U", "P", "D", "A", "T", "E">>
DELETE == <<"D", "E", "L", "E", "T", "E">>
MERGE == <<"M", "E", "R", "G", "E">>

\* lines 149-152: the prefixes do_execute tests for, each ending in a space
DmlPrefixes == {kw \o <<" ">> : kw \in {INSERT, UPDATE, DELETE, MERGE}}

\* lines 148-152
NeedsRowcount(text) ==
    LET trimmed == to_uppercase(trim(text)) IN
    \E prefix \in DmlPrefixes : starts_with(trimmed, prefix)

\* line 155: "\nSELECT @@ROWCOUNT AS __rc__", kept as one token after the newline
RowcountEcho == <<"\n", "SELECT @@ROWCOUNT AS __rc__">>

\* lines 154-158
BatchSql(text) == IF NeedsRowcount(text) THEN text \o RowcountEcho ELSE text

\* Mutant of ScanRowcount: the first matching table decides, not the last
ScanRowcount_first(tables, i, rowcount) ==
    LET hits == {k \in i..Len(tables) :
                    /\ Len(tables[k].cols) = 1
                    /\ tables[k].cols[1] = "__rc__"
                    /\ row_count(tables[k]) > 0
                    /\ get(tables[k], 0, 0).tag = "I64"} IN
    IF hits = {} THEN rowcount
    ELSE get(tables[CHOOSE k \in hits : \A j \in hits : k <= j], 0, 0).v

\* lines 166-173: the loop over the finalized tables, from table i on, with
\* rowcount the value so far
RECURSIVE ScanRowcount(_, _, _)
ScanRowcount(tables, i, rowcount) ==
    IF i > Len(tables) THEN rowcount
    ELSE LET w == tables[i]
             hit == /\ Len(w.cols) = 1
                    /\ w.cols[1] = "__rc__"
                    /\ row_count(w) > 0
                    /\ get(w, 0, 0).tag = "I64"
         IN  ScanRowcount(tables, i + 1, IF hit THEN get(w, 0, 0).v ELSE rowcount)

\* lines 175-179: format!("{} row(s) affected", rowcount) or "OK"
Message(dml, rowcount) ==
    IF dml THEN [text |-> "row(s) affected", n |-> rowcount]
    ELSE [text |-> "OK", n |-> 0]

NoMessage == [text |-> "", n |-> 0]

\* A finalized table of complete rows
TableOf(columns, cells) ==
    [cols |-> columns, col_count |-> Len(columns), values |-> cells, current_row |-> <<>>]

\* What the server sends for the appended SELECT @@ROWCOUNT AS __rc__
EchoTable(n) == TableOf(<<"__rc__">>, <<I64(n)>>)

\* The tables a statement's own result sets finalize to
UserTables == {<<>>, <<TableOf(<<"a">>, <<I64(1)>>)>>, <<TableOf(<<>>, <<>>)>>,
               <<TableOf(<<"__rc__">>, <<I64(7)>>)>>,
               <<TableOf(<<"__rc__">>, <<I64(8), I64(9)>>)>>,
               <<TableOf(<<"__rc__">>, <<Null>>), TableOf(<<"a">>, <<I64(1)>>)>>}

\* The tables finalize returns for a batch that ran to its end: the
\* statement's own, then the echo's when the echo was appended
BatchTables(dml) ==
    IF dml THEN {user \o <<EchoTable(n)>> : user \in UserTables, n \in {0, 1, 2}}
    ELSE UserTables

\* The statement texts do_execute is called with: a keyword or another word, in
\* some case, after optional whitespace, then one whitespace character and the
\* rest of the statement
Leads == {<<>>, <<" ">>, <<"\n">>}
Words == {INSERT, UPDATE, DELETE, MERGE,
          <<"i", "n", "s", "e", "r", "t">>, <<"U", "p", "d", "a", "t", "e">>,
          <<"S", "E", "L", "E", "C", "T">>}
Follows == {<<" ">>, <<"\t">>, <<"\n">>}
Tails == {<<"t">>, <<"t", " ">>}
Statements == {lead \o word \o follow \o tail :
                 lead \in Leads, word \in Words, follow \in Follows, tail \in Tails}

\* do_execute, lines 148-158: the statement is classified and the batch built
do_execute_prepare ==
    /\ phase = "execute"
    /\ needs_rowcount' = NeedsRowcount(sql)
    /\ batch_sql' = BatchSql(sql)
    /\ phase' = "execute_batch"
    /\ UNCHANGED <<bridgeVars, callVars, sql, message, completed, current, log, sets, reply>>

\* do_execute, lines 160-180: the batch runs, its tables are scanned for the
\* echoed counter and the message is returned
do_execute_return(tables) ==
    /\ phase = "execute_batch"
    /\ sets' = tables
    /\ message' = Message(needs_rowcount, ScanRowcount(tables, 1, 0))
    /\ phase' = "execute_done"
    /\ UNCHANGED <<bridgeVars, callVars, sql, needs_rowcount, batch_sql, completed, current,
                   log, reply>>

\* do_execute, line 162: batch_into fails and the error is returned
do_execute_err(e) ==
    /\ phase = "execute_batch"
    /\ message' = [text |-> to_pyerr(e), n |-> 0]
    /\ phase' = "execute_failed"
    /\ UNCHANGED <<bridgeVars, callVars, sql, needs_rowcount, batch_sql, completed, current, log,
                   sets, reply>>

(***************************************************************************)
(* Parameter substitution (src/lib.rs:262-271) and the literal of a        *)
(* parameter (src/types.rs:147-204).  Texts are sequences of characters.   *)
(* A parameter is a record of its Python type and its value.               *)
(***************************************************************************)
MaxParams == 2     \* parameters of one call

Digit == <<"0", "1", "2", "3", "4", "5", "6", "7", "8", "9">>

\* u128::to_string / usize Display: the decimal digits of a natural number
RECURSIVE NatToString(_)
NatToString(n) ==
    IF n < 10 THEN <<Digit[n + 1]>>
    ELSE NatToString(n \div 10) \o <<Digit[(n % 10) + 1]>>

\* i64::to_string
to_string(n) == IF n < 0 THEN <<"-">> \o NatToString(-n) ELSE NatToString(n)

\* line 265: format!("@p{}", i + 1), with k = i + 1
Placeholder(k) == <<"@", "p">> \o NatToString(k)

\* str::replace(from, to): every non-overlapping match of from, left to right
RECURSIVE replace(_, _, _)
replace(s, from, to) ==
    IF Len(s) < Len(from) THEN s
    ELSE IF SubSeq(s, 1, Len(from)) = from
         THEN to \o replace(SubSeq(s, Len(from) + 1, Len(s)), from, to)
         ELSE <<Head(s)>> \o replace(Tail(s), from, to)

Quote == "'"

\* Mutant of EscapeQuotes: only the first quote is doubled
EscapeQuotes_first(t) ==
    IF \E k \in DOMAIN t : t[k] = Quote
    THEN LET k == CHOOSE j \in DOMAIN t : t[j] = Quote /\ \A h \in 1..(j - 1) : t[h] # Quote
         IN  SubSeq(t, 1, k) \o <<Quote>> \o SubSeq(t, k + 1, Len(t))
    ELSE t

\* types.rs:200: v.replace('\'', "''")
EscapeQuotes(t) == replace(t, <<Quote>>, <<Quote, Quote>>)

\* types.rs:147-204 py_to_sql_literal, for None, bool, int and str parameters
py_to_sql_literal(param) ==
    CASE param.type = "NoneType" -> <<"N", "U", "L", "L">>
      [] param.type = "bool" -> IF param.bool THEN <<"1">> ELSE <<"0">>
      [] param.type = "int" -> to_string(param.int)
      [] param.type = "str" -> <<"N", Quote>> \o EscapeQuotes(param.str) \o <<Quote>>

\* lines 265-268: the iteration for the parameter of index k (1-based)
SubstituteOne(res, ps, k) == replace(res, Placeholder(k), py_to_sql_literal(ps[k]))

\* lines 264-269: the iterations k, k - 1, .., 1 of `enumerate().rev()`
RECURSIVE SubstituteFrom(_, _, _)
SubstituteFrom(res, ps, k) ==
    IF k = 0 THEN res ELSE SubstituteFrom(SubstituteOne(res, ps, k), ps, k - 1)

\* substitute_params(py, sql, params)
substitute_params(s, ps) == SubstituteFrom(s, ps, Len(ps))

\* native_query lines 311-315, native_execute 326-330, native_execute_many
\* 353-357: without parameters the text is taken as it is
FinalSql(s, ps) == IF ps = <<>> THEN s ELSE substitute_params(s, ps)

PyNone == [type |-> "NoneType"]
PyBool(b) == [type |-> "bool", bool |-> b]
PyInt(n) == [type |-> "int", int |-> n]
PyStr(t) == [type |-> "str", str |-> t]

\* The text parameters of the model
TextValues == {<<>>, <<Quote>>, <<"O", Quote, "B">>, <<Quote, Quote, "a">>, <<"a", Quote>>,
               <<"@", "p", "1">>}

\* The parameter values of the model
ParamValues == {PyNone, PyBool(TRUE), PyInt(-7)} \cup {PyStr(t) : t \in TextValues}

\* The parameter lists of the model
ParamLists == UNION {[1..n -> ParamValues] : n \in 0..MaxParams}

\* The statement templates of the model
Templates ==
    { Placeholder(1),
      <<"x", " ">> \o Placeholder(2) \o <<",">> \o Placeholder(1),
      Placeholder(1) \o Placeholder(1),
      Placeholder(10),
      Placeholder(3) \o <<" ">> \o Placeholder(1),
      <<Quote>> \o Placeholder(2) \o <<Quote>>,
      <<"x">>,
      <<"@", "p">> }

\* substitute_params, line 263: let mut result = sql.to_string()
SubstituteInit ==
    /\ sql \in Templates
    /\ params \in ParamLists
    /\ result = sql
    /\ subst_i = Len(params)
    /\ literal = <<>>

\* substitute_params, lines 264-269: one iteration of the loop
substitute_iteration ==
    /\ subst_i > 0
    /\ literal' = py_to_sql_literal(params[subst_i])
    /\ result' = SubstituteOne(result, params, subst_i)
    /\ subst_i' = subst_i - 1
    /\ UNCHANGED <<bridgeVars, collVars, execVars, typesVars, manyVars, params>>

(***************************************************************************)
(* native_execute_many and do_execute_many (src/lib.rs:344-361, 190-198),  *)
(* one call on its own, from the lookup of the connection on               *)
(***************************************************************************)
\* The parameter sets and statement templates of the calls of the model
ManyParamSets == {<<>>, <<PyInt(-7)>>, <<PyStr(<<"O", Quote, "B">>)>>}
ArgsLists == UNION {[1..n -> ManyParamSets] : n \in 0..MaxBatches}
ManyTemplates == {<<"x", "=">> \o Placeholder(1), <<"x">>}

\* native_execute_many, lines 350-359: one statement per parameter set
BuildSqls(s, al) == [k \in 1..Len(al) |-> FinalSql(s, al[k])]

ManyInit ==
    /\ sql \in ManyTemplates
    /\ args_list \in ArgsLists
    /\ sqls = <<>>
    /\ many_pc = "call"
    /\ submitted = <<>>
    /\ many_result = NoResult

\* native_execute_many: the statements are built and do_execute_many spawned
native_execute_many ==
    /\ many_pc = "call"
    /\ sqls' = BuildSqls(sql, args_list)
    /\ many_pc' = "loop"
    /\ UNCHANGED <<bridgeVars, collVars, execVars, typesVars, substVars, args_list, submitted,
                   many_result>>

\* do_execute_many, lines 192-195: the loop takes the next statement, locks
\* the client and hands the statement to batch_into
do_execute_many_submit ==
    /\ many_pc = "loop"
    /\ sqls # <<>>
    /\ submitted' = Append(submitted, Head(sqls))
    /\ sqls' = Tail(sqls)
    /\ many_pc' = "batch"
    /\ UNCHANGED <<bridgeVars, collVars, execVars, typesVars, substVars, args_list, many_result>>

\* line 195: batch_into returned Ok; line 196 ends the iteration
do_execute_many_ok ==
    /\ many_pc = "batch"
    /\ many_pc' = "loop"
    /\ UNCHANGED <<bridgeVars, collVars, execVars, typesVars, substVars, args_list, sqls, submitted,
                   many_result>>

\* Mutant of do_execute_many_err: the error is noted and the loop goes on
do_execute_many_err_goes_on(e) ==
    /\ many_pc = "batch"
    /\ many_pc' = "loop"
    /\ many_result' = set_exception(to_pyerr(e), 0)
    /\ UNCHANGED <<bridgeVars, collVars, execVars, typesVars, substVars, args_list, sqls,
                   submitted>>

\* line 195: batch_into(..).await.map_err(to_pyerr)? returns the error
do_execute_many_err(e) ==
    /\ many_pc = "batch"
    /\ many_pc' = "returned"
    /\ many_result' = set_exception(to_pyerr(e), 0)
    /\ UNCHANGED <<bridgeVars, collVars, execVars, typesVars, substVars, args_list, sqls,
                   submitted>>

\* line 197: the loop has ended, Ok(())
do_execute_many_return ==
    /\ many_pc = "loop"
    /\ sqls = <<>>
    /\ many_pc' = "returned"
    /\ many_result' = set_result("value", 0)
    /\ UNCHANGED <<bridgeVars, collVars, execVars, typesVars, substVars, args_list, sqls,
                   submitted>>

(***************************************************************************)
(* compact_value_to_py (src/types.rs:92-144) for Date, DateTime and        *)
(* Decimal values                                                          *)
(***************************************************************************)
DaySpan == 400     \* days on each side of a date the day counts are taken around

\* Rust's / on signed integers, which truncates toward zero
RustDiv(a, b) == IF a >= 0 THEN a \div b ELSE -((-a) \div b)

\* i64::div_euclid and i64::rem_euclid, for a positive divisor
div_euclid(a, b) == a \div b

\* Mutant of rem_euclid: the remainder of the truncating division
rem_truncating(a, b) == a - b * RustDiv(a, b)

rem_euclid(a, b) == a % b

\* Mutant of BumpsYear: no month belongs to the next civil year
BumpsYear_never(m) == FALSE

\* Mutant of BumpsYear: March counts with January and February
BumpsYear_march(m) == m <= 3

\* lines 118 and 76: the months that belong to the next civil year
BumpsYear(m) == m <= 2

\* lines 109-111 (and 67-69): the day of the 400-year era of a day count; the
\* `as u32` is applied to a value in 0..146096
DayOfEra(unix_days) ==
    LET days == unix_days + 719468
        era == RustDiv(IF days >= 0 THEN days ELSE days - 146096, 146097)
    IN  days - era * 146097

\* lines 109-113 (and 67-71): y, the year computed from era and year-of-era,
\* which begins on the 1st of March
EraYear(unix_days) ==
    LET days == unix_days + 719468
        era == RustDiv(IF days >= 0 THEN days ELSE days - 146096, 146097)
        doe == DayOfEra(unix_days)
        yoe == (doe - doe \div 1460 + doe \div 36524 - doe \div 146096) \div 365
    IN  yoe + era * 400

\* lines 112-117 (and 70-75): m, the month obtained from the March-based
\* reordering of mp
MarchMonth(unix_days) ==
    LET doe == DayOfEra(unix_days)
        yoe == (doe - doe \div 1460 + doe \div 36524 - doe \div 146096) \div 365
        doy == doe - (365 * yoe + yoe \div 4 - yoe \div 100)
        mp == (5 * doy + 2) \div 153
    IN  IF mp < 10 THEN mp + 3 ELSE mp - 9

\* lines 109-118 (and 67-76): year, month and day of a day count from 1970-01-01
civil_from_days(unix_days) ==
    LET days == unix_days + 719468
        era == RustDiv(IF days >= 0 THEN days ELSE days - 146096, 146097)
        doe == DayOfEra(unix_days)
        yoe == (doe - doe \div 1460 + doe \div 36524 - doe \div 146096) \div 365
        y == yoe + era * 400
        doy == doe - (365 * yoe + yoe \div 4 - yoe \div 100)
        mp == (5 * doy + 2) \div 153
        d == doy - (153 * mp + 2) \div 5 + 1
        m == IF mp < 10 THEN mp + 3 ELSE mp - 9
        year == IF BumpsYear(m) THEN y + 1 ELSE y
    IN  [year |-> year, month |-> m, day |-> d]

\* An i64 count of microseconds is held as <<s, u>>, which stands for
\* s * 1000000 + u with -1000000 < u < 1000000: the count itself is beyond the
\* integers of the checker.  Division by 1000000 then works on u and carries
\* into s.
\* lines 59-78 micros_to_components
micros_to_components(micros) ==
    LET total_secs == micros[1] + div_euclid(micros[2], 1000000)
        remaining_micros == rem_euclid(micros[2], 1000000)
        time_of_day == rem_euclid(total_secs, 86400)
        hour == time_of_day \div 3600
        minute == (time_of_day % 3600) \div 60
        second == time_of_day % 60
        c == civil_from_days(div_euclid(total_secs, 86400))
    IN  [year |-> c.year, month |-> c.month, day |-> c.day, hour |-> hour,
         minute |-> minute, second |-> second, microsecond |-> remaining_micros]

\* CompactValue::DateTime(micros)
DateTime(micros) == [tag |-> "DateTime", micros |-> micros]

\* line 131: datetime_cls(year, month, day, hour, minute, second, remaining_micros)
PyDateTime(c) == [cls |-> "datetime"] @@ c

Zeros(n) == [k \in 1..n |-> "0"]

\* Mutant of NoIntegerDigits: as many digits as the scale are split with nothing on the left
NoIntegerDigits_strict(len, scale) == len < scale

\* line 86: s.len() <= scale, the digits all belong to the fraction
NoIntegerDigits(len, scale) == len <= scale

\* lines 80-89 decimal_i128_to_string
decimal_i128_to_string(value, scale) ==
    LET negative == value < 0
        abs == IF value < 0 THEN -value ELSE value
        digits == NatToString(abs)
        res == IF scale = 0 THEN digits
               ELSE IF NoIntegerDigits(Len(digits), scale)
                    THEN <<"0", ".">> \o Zeros(scale - Len(digits)) \o digits
                    ELSE SubSeq(digits, 1, Len(digits) - scale) \o <<".">>
                             \o SubSeq(digits, Len(digits) - scale + 1, Len(digits))
    IN  IF negative THEN <<"-">> \o res ELSE res

\* CompactValue::Decimal(value, precision, scale)
Decimal(value, precision, scale) ==
    [tag |-> "Decimal", value |-> value, precision |-> precision, scale |-> scale]

\* line 106: Decimal(s)
PyDecimal(text) == [cls |-> "Decimal", text |-> text]

\* CompactValue::Date(unix_days)
Date(unix_days) == [tag |-> "Date", unix_days |-> unix_days]

NoObject == [cls |-> "none"]

\* line 119: date_cls(year, m, d)
PyDate(c) == [cls |-> "date", year |-> c.year, month |-> c.month, day |-> c.day]

\* compact_value_to_py: the match on the variant of val
ToPy(v) ==
    CASE v.tag = "Date" -> PyDate(civil_from_days(v.unix_days))
      [] v.tag = "DateTime" -> PyDateTime(micros_to_components(v.micros))
      [] v.tag = "Decimal" -> PyDecimal(decimal_i128_to_string(v.value, v.scale))

\* 1970-01-01, 2000-02-29, 1968-02-29, 1900-03-01, 0001-01-01 and 9999-12-31
\* as day counts
DayAnchors == {0, 11016, -672, -25508}
FirstDay == -719162
LastDay == 2932896

\* The day counts of the model: around the anchors, and the two ends of the
\* range of the host's date type
DayCounts ==
    UNION {(a - DaySpan)..(a + DaySpan) : a \in DayAnchors}
        \cup (FirstDay..(FirstDay + DaySpan)) \cup ((LastDay - DaySpan)..LastDay)

SecondSpan == 61   \* seconds on each side of an hour mark the counts are taken around

\* 1970-01-01, 2000-02-29 and 1968-02-29 at 00:00:00, and the two ends of the
\* counts of seconds the checker's integers hold
SecondAnchors == {0, 951782400, -58060800, -2000000000, 2000000000}

\* The hour marks around an anchor
HourMarks == {-25, -24, -1, 0, 1, 12, 23, 24}

SecondCounts ==
    {a + h * 3600 + o : a \in SecondAnchors, h \in HourMarks, o \in (-SecondSpan)..SecondSpan}

\* The sub-second parts of the counts of the model
SubSeconds == {-999999, -500000, -1, 0, 1, 999999}

MicrosCounts == SecondCounts \X SubSeconds

MaxScale == 6      \* the largest scale of a decimal

\* The mantissas of the model
Mantissas == {0, 1, -1, 5, -5, 10, -10, 99, -100, 12345, -12345, 1000000, -999999,
              2147483647, -2147483647}

DecimalValues == {Decimal(m, 38, sc) : m \in Mantissas, sc \in 0..MaxScale}

TypedValues ==
    {Date(n) : n \in DayCounts} \cup {DateTime(x) : x \in MicrosCounts} \cup DecimalValues

TypesInit ==
    /\ compact_val \in TypedValues
    /\ py_object = NoObject

\* compact_value_to_py(py, val)
compact_value_to_py ==
    /\ py_object = NoObject
    /\ compact_val \in TypedValues
    /\ py_object' = ToPy(compact_val)
    /\ UNCHANGED <<bridgeVars, collVars, execVars, substVars, manyVars, compact_val>>

CollIdle ==
    /\ phase = "off"
    /\ completed = <<>>
    /\ current = <<>>
    /\ log = <<>>
    /\ sets = <<>>
    /\ reply = None

ExecIdle ==
    /\ sql = <<>>
    /\ needs_rowcount = FALSE
    /\ batch_sql = <<>>
    /\ message = NoMessage

SubstIdle ==
    /\ params = <<>>
    /\ result = <<>>
    /\ subst_i = 0
    /\ literal = <<>>

ManyIdle ==
    /\ args_list = <<>>
    /\ sqls = <<>>
    /\ many_pc = "off"
    /\ submitted = <<>>
    /\ many_result = NoResult

BridgeInit ==
    /\ NEXT_ID = 1
    /\ connections = <<>>
    /\ regLock = 0
    /\ clientLock = [c \in Clients |-> 0]
    /\ task = [t \in Tasks |-> IdleTask]
    /\ nclients = 0
    /\ assigned = <<>>
    /\ closed = {}

TypesIdle ==
    /\ compact_val = Null
    /\ py_object = NoObject

\* No call is under study on its own
CallIdle == SubstIdle /\ ManyIdle /\ TypesIdle

Init == BridgeInit /\ CollIdle /\ ExecIdle /\ CallIdle

Next ==
    \E t \in Tasks :
        \/ native_connect(t)
        \/ \E o \in BatchOps \cup {"close"}, h \in Handles : native_op(t, o, h)
        \/ do_connect_fail(t)
        \/ do_connect_ok(t)
        \/ connections_lock(t)
        \/ do_connect_insert(t)
        \/ get_conn_err(t)
        \/ \E n \in 0..MaxBatches : get_conn_ok(t, n)
        \/ conn_lock(t)
        \/ batch_ok(t)
        \/ \E e \in TabbyErrors : batch_err(t, e)
        \/ do_close(t)
        \/ Awaited(t)

Spec == Init /\ [][Next]_vars

InitCollector == BridgeInit /\ CollectorInit /\ ExecIdle /\ CallIdle

NextCollector ==
    \/ \E columns \in ColumnLists : on_metadata(columns)
    \/ \E col \in ColumnIndexes, val \in CompactValues : write(col, val)
    \/ on_row_done
    \/ on_info
    \/ finalize
    \/ do_query_return

SpecCollector == InitCollector /\ [][NextCollector]_vars

InitExecute ==
    /\ BridgeInit
    /\ CallIdle
    /\ phase = "execute"
    /\ completed = <<>>
    /\ current = <<>>
    /\ log = <<>>
    /\ sets = <<>>
    /\ reply = None
    /\ sql \in Statements
    /\ needs_rowcount = FALSE
    /\ batch_sql = <<>>
    /\ message = NoMessage

NextExecute ==
    \/ do_execute_prepare
    \/ \E tables \in BatchTables(needs_rowcount) : do_execute_return(tables)
    \/ \E e \in TabbyErrors : do_execute_err(e)

SpecExecute == InitExecute /\ [][NextExecute]_vars

InitTypes ==
    /\ BridgeInit
    /\ CollIdle
    /\ ExecIdle
    /\ SubstIdle
    /\ ManyIdle
    /\ TypesInit

NextTypes == compact_value_to_py

SpecTypes == InitTypes /\ [][NextTypes]_vars

InitMany ==
    /\ BridgeInit
    /\ CollIdle
    /\ TypesIdle
    /\ needs_rowcount = FALSE
    /\ batch_sql = <<>>
    /\ message = NoMessage
    /\ SubstIdle
    /\ ManyInit

NextMany ==
    \/ native_execute_many
    \/ do_execute_many_submit
    \/ do_execute_many_ok
    \/ \E e \in TabbyErrors : do_execute_many_err(e)
    \/ do_execute_many_return

SpecMany == InitMany /\ [][NextMany]_vars

InitSubstitute ==
    /\ BridgeInit
    /\ CollIdle
    /\ TypesIdle
    /\ needs_rowcount = FALSE
    /\ batch_sql = <<>>
    /\ message = NoMessage
    /\ ManyIdle
    /\ SubstituteInit

NextSubstitute == substitute_iteration

SpecSubstitute == InitSubstitute /\ [][NextSubstitute]_vars

(***************************************************************************)
(* Claims about the registry and the bridge                                *)
(***************************************************************************)
InBatch(h) == {t \in Tasks : task[t].pc = "batch" /\ task[t].arg = h}

Range(f) == {f[i] : i \in DOMAIN f}

\* C1: per-handle mutual exclusion.  In every reachable state at most one
\* batch call is in progress on a handle, and on the client it maps to: a
\* second operation's batch starts only once the first one's has ended.
C1_MutualExclusion ==
    \A t, u \in Tasks :
        (t # u /\ task[t].pc = "batch" /\ task[u].pc = "batch") =>
            /\ task[t].arg # task[u].arg
            /\ task[t].conn # task[u].conn

\* C1 witness: one operation runs its batch while a second one, holding a
\* reference to the same handle's client, waits for the lock.
C1_Witness ==
    \E t, u \in Tasks :
        /\ task[t].pc = "batch"
        /\ task[u].pc = "lock"
        /\ task[u].arg = task[t].arg
        /\ task[u].conn = task[t].conn

\* C2: once close(h) has removed h, h is never in the registry again, and
\* every lookup of h by query / execute / execute_raw / execute_many made from
\* then on ends the operation with "Connection is closed" without touching
\* any client lock (no batch is submitted), whatever connects and closes follow.
C2_ClosedStaysClosed ==
    [][ /\ closed \subseteq closed'
        /\ closed' \cap DOMAIN connections' = {}
        /\ \A t \in Tasks :
             ( /\ task[t].pc = "in_registry"
               /\ task[t].op \in BatchOps
               /\ task[t].arg \in closed
               /\ task'[t] # task[t] )
             => /\ task'[t].pc = "done"
                /\ task'[t].result = set_exception(ConnectionClosed, task[t].arg)
                /\ clientLock' = clientLock ]_vars

\* C2 witness: an operation is at its lookup of a handle that was closed, after
\* a later connect has put another handle into the registry.
C2_Witness ==
    \E t \in Tasks :
        /\ task[t].pc = "in_registry"
        /\ task[t].op \in BatchOps
        /\ task[t].arg \in closed
        /\ \E h \in DOMAIN connections : h > task[t].arg

\* C3: close(h) does not interrupt work in flight.  A step that changes the
\* registry leaves every operation that already holds a client reference, and
\* every client lock, as they were; such an operation never ends with
\* "Connection is closed"; with its handle gone from the registry it can still
\* take the free lock and its batch can still complete with a normal result.
C3_CloseDoesNotInterrupt ==
    /\ [][ \A t \in Tasks : task[t].pc \in {"lock", "batch"} =>
             /\ connections' # connections => (task'[t] = task[t] /\ clientLock' = clientLock)
             /\ task'[t].result.val # ConnectionClosed ]_vars
    /\ [](\A t \in Tasks : task[t].arg \notin DOMAIN connections =>
             /\ (task[t].pc = "lock" /\ InBatch(task[t].arg) = {}) => ENABLED conn_lock(t)
             /\ task[t].pc = "batch" => ENABLED batch_ok(t))

\* C3 witness: an execute_many with statements left runs a batch on a handle
\* that has been closed since its lookup.
C3_Witness ==
    \E t \in Tasks :
        /\ task[t].pc = "batch"
        /\ task[t].remaining > 1
        /\ task[t].arg \in closed

StrictlyIncreasing(s) == \A i, j \in DOMAIN s : i < j => s[i] < s[j]

\* C4: handles are strictly increasing and never reused.  The handles drawn
\* by connect form a strictly increasing sequence (so no two are equal and a
\* closed handle is never drawn again), every handle a connect returns or
\* registers is one of them, and the registry maps distinct handles to
\* distinct clients.
C4_HandlesNeverReused ==
    /\ StrictlyIncreasing(assigned)
    /\ closed \subseteq Range(assigned)
    /\ DOMAIN connections \subseteq Range(assigned) \ closed
    /\ \A h, k \in DOMAIN connections : h # k => connections[h] # connections[k]
    /\ \A t \in Tasks : task[t].op = "connect" /\ task[t].pc \in {"registry", "in_registry"} =>
           /\ task[t].arg \in Range(assigned) \ (closed \cup DOMAIN connections)
           /\ \A u \in Tasks \ {t} : task[u].op = "connect" => task[u].arg # task[t].arg
    /\ \A t \in Tasks : task[t].result.val = "id" => task[t].result.arg \in Range(assigned)

\* C4 witness: a handle has been closed and a connect has since returned a
\* greater one, now live in the registry.
C4_Witness ==
    \E t \in Tasks :
        /\ task[t].result.val = "id"
        /\ task[t].result.arg \in DOMAIN connections
        /\ \E h \in closed : h < task[t].result.arg

\* C5: different handles never block each other.  An operation waiting for
\* the lock of its client can take it whenever no batch is in progress on
\* that client, whatever is in progress on the other clients.
C5_HandlesIndependent ==
    \A t \in Tasks :
        ( /\ task[t].pc = "lock"
          /\ \A u \in Tasks : task[u].pc = "batch" => task[u].conn # task[t].conn )
        => ENABLED conn_lock(t)

\* C5 witness: batches on two different handles are in progress at once.
C5_Witness ==
    \E t, u \in Tasks :
        /\ task[t].pc = "batch"
        /\ task[u].pc = "batch"
        /\ task[t].arg # task[u].arg

\* C6: a failed batch leaves the connection usable.  When a batch call ends
\* with an error the operation surfaces that error (as to_pyerr maps it), the
\* client's lock is free again, and the registry, the handle's entry with it,
\* is unchanged.
C6_FailedBatchKeepsConnection ==
    [][ \A t \in Tasks :
          (task[t].pc = "batch" /\ task'[t].result.kind = "exception") =>
             /\ task'[t].pc = "done"
             /\ task'[t].result.val \in {to_pyerr(e) : e \in TabbyErrors}
             /\ clientLock'[task[t].conn] = 0
             /\ connections' = connections ]_vars

\* C6 witness: an operation has ended with a batch error on a handle, and
\* another operation is running its batch on the same handle.
C6_Witness ==
    \E t, u \in Tasks :
        /\ task[t].result.val \in {to_pyerr(e) : e \in TabbyErrors}
        /\ task[u].pc = "batch"
        /\ task[u].arg = task[t].result.arg
        /\ task[u].arg \in DOMAIN connections

\* C18: two concurrent operations on one handle run back-to-back, never
\* interleaved.  When an execute_many has finished a batch and has another one
\* to run, no other operation on that handle is in a position to start a batch
\* before it: none waits on the client's lock with the lock free.
C18_NeverInterleaved ==
    [][ \A t \in Tasks :
          (task[t].pc = "batch" /\ task'[t].pc = "lock") =>
              \A u \in Tasks \ {t} :
                  ~( /\ task'[u].arg = task[t].arg
                     /\ (ENABLED conn_lock(u))' ) ]_vars

\* The step that ends the critical section of the registry lock's holder
RegistryStep(t) ==
    \/ do_connect_insert(t)
    \/ get_conn_err(t)
    \/ \E n \in 0..MaxBatches : get_conn_ok(t, n)
    \/ do_close(t)

\* C19: the registry lock is independent of I/O.  The task that holds the
\* registry lock is in its map access: it neither holds nor waits for a client
\* lock, runs no batch and no handshake; whatever batches are in flight it can
\* finish the access and release the lock, and a task that wants the free
\* registry lock can take it.
C19_RegistryLockIndependent ==
    /\ \A t \in Tasks : (regLock = t) <=> (task[t].pc = "in_registry")
    /\ regLock # 0 =>
          /\ task[regLock].pc \notin {"handshake", "lock", "batch"}
          /\ \A c \in Clients : clientLock[c] # regLock
          /\ ENABLED RegistryStep(regLock)
    /\ \A t \in Tasks : (task[t].pc = "registry" /\ regLock = 0) => ENABLED connections_lock(t)

\* C19 witness: a task holds the registry lock for a handle on which another
\* task's batch is in progress.
C19_Witness ==
    /\ regLock # 0
    /\ \E u \in Tasks :
         /\ task[u].pc = "batch"
         /\ task[u].arg = task[regLock].arg
         /\ clientLock[task[u].conn] = u

\* C24: close is total and idempotent.  The step by which close(h) leaves the
\* registry always resolves the future with a result, never an exception,
\* whether h is in the registry or not (never assigned, or already closed);
\* it removes h's mapping and nothing else: every other mapping, the handle
\* counter, the clients, their locks and every other operation stay as they
\* were, and when h is not in the registry the registry itself is unchanged.
C24_CloseTotalIdempotent ==
    [][ \A t \in Tasks :
          ( /\ task[t].pc = "in_registry"
            /\ task[t].op = "close"
            /\ task'[t] # task[t] )
          => /\ task'[t].pc = "done"
             /\ task'[t].result.kind = "result"
             /\ DOMAIN connections' = DOMAIN connections \ {task[t].arg}
             /\ \A h \in DOMAIN connections' : connections'[h] = connections[h]
             /\ task[t].arg \notin DOMAIN connections => connections' = connections
             /\ NEXT_ID' = NEXT_ID
             /\ nclients' = nclients
             /\ assigned' = assigned
             /\ clientLock' = clientLock
             /\ \A u \in Tasks \ {t} : task'[u] = task[u] ]_vars

\* C24 witness: close(h) has removed h, and a second close(h) holds the
\* registry lock with h absent while another handle is live.
C24_Witness ==
    \E t \in Tasks :
        /\ task[t].pc = "in_registry"
        /\ task[t].op = "close"
        /\ task[t].arg \in closed
        /\ task[t].arg \notin DOMAIN connections
        /\ connections # <<>>

\* The scheduling the bridge runs under.  A connect attempt and a batch call
\* terminate; the tokio runtime polls a spawned task that can run, so the work
\* done under the registry lock is finished; parking_lot's mutex is eventually
\* fair and tokio's Mutex serves its waiters in order, so a task that waits
\* for a lock which is free again and again gets it.  Nothing obliges the
\* caller to start an operation or to await a resolved future.
Fairness ==
    \A t \in Tasks :
        /\ WF_vars(do_connect_fail(t) \/ do_connect_ok(t))
        /\ SF_vars(connections_lock(t))
        /\ WF_vars(RegistryStep(t))
        /\ SF_vars(conn_lock(t))
        /\ WF_vars(batch_ok(t) \/ \E e \in TabbyErrors : batch_err(t, e))

SpecFair == Init /\ [][Next]_vars /\ Fairness

\* An operation has been handed to the bridge and its future is not resolved
Pending(t) == task[t].pc \notin {"idle", "done"}

\* C22: every operation handed to the bridge is eventually resolved, and
\* exactly once.  A pending operation's future holds nothing; the step that
\* ends the operation gives the future one outcome, a result or an exception,
\* which no later step changes until the caller has taken it; and under fair
\* scheduling every pending operation reaches that step: none waits forever
\* for a lock, on the same or on different handles.
C22_EventuallyResolvedOnce ==
    /\ [](\A t \in Tasks :
            /\ Pending(t) => task[t].result = NoResult
            /\ task[t].pc = "done" <=> task[t].result.kind \in {"result", "exception"})
    /\ [][ \A t \in Tasks :
              (task[t].pc = "done" /\ task'[t] # task[t]) => task'[t] = IdleTask ]_vars
    /\ \A t \in Tasks : Pending(t) ~> (task[t].pc = "done")

\* C22 witness: an operation waits for the lock of a client on which a batch
\* of an execute_many with statements left is in progress.
C22_Witness ==
    \E t, u \in Tasks :
        /\ task[t].pc = "lock"
        /\ task[u].pc = "batch"
        /\ task[u].conn = task[t].conn
        /\ task[u].remaining > 1

(***************************************************************************)
(* Claims about the result collector and do_query                          *)
(***************************************************************************)
\* Every table the collector holds or has returned
TablesHeld == Range(completed) \cup Range(current) \cup Range(sets)

ShapeHolds(w) == Len(w.values) = row_count(w) * w.col_count

\* The positions of the on_metadata events of a log, and the k-th of them
MetaAt(l) == {i \in 1..Len(l) : l[i].ev = "metadata"}
NthMeta(l, k) == CHOOSE i \in MetaAt(l) : Cardinality({j \in MetaAt(l) : j < i}) = k - 1

\* The last event of the result set opened at position m
SegmentEnd(l, m) ==
    IF \E j \in MetaAt(l) : j > m
    THEN (CHOOSE j \in MetaAt(l) : j > m /\ \A k \in MetaAt(l) : k > m => j <= k) - 1
    ELSE Len(l)

\* The position of the last on_row_done of the result set opened at m (m: none)
LastRowDone(l, m) ==
    LET rd == {i \in (m + 1)..SegmentEnd(l, m) : l[i].ev = "row_done"} IN
    IF rd = {} THEN m ELSE CHOOSE i \in rd : \A j \in rd : j <= i

IsWrite(e) == e.ev = "write"

\* The values written in the rows completed in the result set opened at m
CompletedValues(l, m) ==
    LET ws == SelectSeq(SubSeq(l, m + 1, LastRowDone(l, m)), IsWrite) IN
    [k \in 1..Len(ws) |-> ws[k].val]

\* Every on_row_done of an open result set closes a row of exactly as many
\* write_* calls as the result set has columns
RowsMatchColumns(l) ==
    \A r \in 1..Len(l) :
        (l[r].ev = "row_done" /\ \E m \in MetaAt(l) : m < r) =>
            LET m == CHOOSE i \in MetaAt(l) : i < r /\ \A j \in MetaAt(l) : j < r => j <= i
                from == CHOOSE i \in m..r :
                           /\ i = m \/ l[i].ev = "row_done"
                           /\ i < r
                           /\ \A j \in (i + 1)..(r - 1) : l[j].ev # "row_done"
            IN  Cardinality({i \in (from + 1)..(r - 1) : l[i].ev = "write"}) = Len(l[m].cols)

\* C7 as claimed: after any sequence of events, rows whose number of write_*
\* calls differs from the column count included, every table satisfies
\* len(values) == row_count() * col_count.
C7_ShapeAlways == \A w \in TablesHeld : ShapeHolds(w)

\* C7 as amended: when every completed row received exactly col_count write_*
\* calls, every table the collector holds or returns from finalize satisfies
\* len(values) == row_count() * col_count.
C7_ShapeOfMatchingRows == RowsMatchColumns(log) => \A w \in TablesHeld : ShapeHolds(w)

\* C7 witness: finalize has returned a two-column table with a completed row,
\* every row having had as many writes as columns.
C7_Witness ==
    /\ RowsMatchColumns(log)
    /\ \E i \in 1..Len(sets) : sets[i].col_count = 2 /\ row_count(sets[i]) = 1

\* C8: finalize returns one table per on_metadata event, in the order of the
\* events, each with the columns of its event and the values of the rows
\* completed before the next on_metadata (or finalize); no on_metadata, no table.
C8_OneTablePerMetadata ==
    phase # "events" =>
        /\ Len(sets) = Cardinality(MetaAt(log))
        /\ \A k \in 1..Len(sets) :
             /\ sets[k].cols = log[NthMeta(log, k)].cols
             /\ sets[k].values = CompletedValues(log, NthMeta(log, k))

\* C8 witness: finalize has returned two tables, the first with a completed
\* row, the second opened by a later on_metadata.
C8_Witness ==
    /\ phase = "finalized"
    /\ Len(sets) = 2
    /\ sets[1].values # <<>>
    /\ sets[1].cols # sets[2].cols

\* C9: query returns the first table, in emission order, with a non-zero
\* column count (zero rows or not), with its column names, row count, column
\* count and row-major values; it returns no result exactly when no finalized
\* table has columns; a table without columns is never returned.
C9_QueryFirstWithColumns ==
    phase = "query_done" =>
        LET withCols == {i \in 1..Len(sets) : sets[i].col_count # 0} IN
        IF withCols = {}
        THEN reply = None
        ELSE LET i == CHOOSE k \in withCols : \A j \in withCols : k <= j IN
             /\ reply.some
             /\ reply.col_names = sets[i].cols
             /\ reply.col_names # <<>>
             /\ reply.col_count = sets[i].col_count
             /\ reply.row_count = row_count(sets[i])
             /\ reply.values = SubSeq(sets[i].values, 1, reply.row_count * reply.col_count)

\* C9 witness: query has returned a table with columns and no rows that was
\* emitted after a table without columns.
C9_Witness ==
    /\ phase = "query_done"
    /\ reply.some
    /\ reply.row_count = 0
    /\ Len(sets) >= 2
    /\ sets[1].cols = <<>>

\* The positions of the on_row_done events of the result set opened at m, and
\* the write_* events of its r-th completed row (r = 1 is the first row)
RowDones(l, m) == {i \in (m + 1)..SegmentEnd(l, m) : l[i].ev = "row_done"}

RowWrites(l, m, r) ==
    LET rd == RowDones(l, m)
        end == CHOOSE i \in rd : Cardinality({j \in rd : j < i}) = r - 1
        before == {j \in rd : j < end}
        start == IF before = {} THEN m ELSE CHOOSE i \in before : \A j \in before : j <= i
    IN  SelectSeq(SubSeq(l, start + 1, end - 1), IsWrite)

\* Every completed row of every result set has one write_* call per column
RowsCoverColumns(l) ==
    \A m \in MetaAt(l) : \A r \in 1..Cardinality(RowDones(l, m)) :
        LET ws == RowWrites(l, m, r) IN
        /\ Len(ws) = Len(l[m].cols)
        /\ \A c \in 0..(Len(l[m].cols) - 1) : \E i \in 1..Len(ws) : ws[i].col = c

\* ... and the calls of each row come in increasing order of column index
RowsInColumnOrder(l) ==
    \A m \in MetaAt(l) : \A r \in 1..Cardinality(RowDones(l, m)) :
        LET ws == RowWrites(l, m, r) IN
        /\ Len(ws) = Len(l[m].cols)
        /\ \A i \in 1..Len(ws) : ws[i].col = i - 1

\* The cell at (row, col) of every finalized table is the value of the write_*
\* call that carried column_index = col during that row
CellsAddressed ==
    \A k \in 1..Len(sets) :
        LET m == NthMeta(log, k) IN
        \A row \in 0..(row_count(sets[k]) - 1), col \in 0..(sets[k].col_count - 1) :
            LET ws == RowWrites(log, m, row + 1) IN
            \E i \in 1..Len(ws) : ws[i].col = col /\ get(sets[k], row, col) = ws[i].val

\* C20 as claimed: in every finalized table the cell values[r * col_count + c]
\* is the value passed to the write_* call carrying column_index = c during
\* the r-th completed row, in whatever order the calls of a row are issued.
C20_CellAddressingAnyOrder ==
    (phase # "events" /\ RowsCoverColumns(log)) => CellsAddressed

\* C20 as amended: when the write_* calls of every row are issued in increasing
\* order of column index, one per column, the cell values[r * col_count + c]
\* of every finalized table is the value passed to the call carrying
\* column_index = c during the r-th completed row.
C20_CellAddressingInColumnOrder ==
    (phase # "events" /\ RowsInColumnOrder(log)) => CellsAddressed

\* C20 witness: finalize has returned a two-column table with a completed row
\* of two different values, written in column order.
C20_Witness ==
    /\ phase = "finalized"
    /\ RowsInColumnOrder(log)
    /\ \E k \in 1..Len(sets) :
         /\ sets[k].col_count = 2
         /\ row_count(sets[k]) = 1
         /\ get(sets[k], 0, 0) # get(sets[k], 0, 1)

(***************************************************************************)
(* Claims about do_execute                                                 *)
(***************************************************************************)
\* The statement's trimmed, upper-cased text begins with a DML keyword
BeginsWithKeyword(text) ==
    \E kw \in {INSERT, UPDATE, DELETE, MERGE} : starts_with(to_uppercase(trim(text)), kw)

\* C10: execute classifies a statement by its trimmed, case-normalized text.
\* If it begins with INSERT, UPDATE, DELETE or MERGE, whatever character
\* follows the keyword, the rowcount echo is appended to the batch and the
\* result is "<n> row(s) affected"; otherwise the text is submitted unchanged
\* and the result is "OK".
C10_ClassifiedByKeyword ==
    phase = "execute_done" =>
        IF BeginsWithKeyword(sql)
        THEN batch_sql = sql \o RowcountEcho /\ message.text = "row(s) affected"
        ELSE batch_sql = sql /\ message = Message(FALSE, 0)

\* C11: for a DML execute, the n of "<n> row(s) affected" is the value echoed
\* by the appended rowcount statement (the last table of the batch, one column
\* __rc__, one row), whatever tables the statement itself emitted before it.
C11_RowcountIsEcho ==
    (phase = "execute_done" /\ needs_rowcount) =>
        LET echo == sets[Len(sets)] IN
        /\ echo.cols = <<"__rc__">>
        /\ row_count(echo) = 1
        /\ message = Message(TRUE, get(echo, 0, 0).v)

\* C11 witness: a DML execute has returned after a batch in which the
\* statement itself emitted a one-column __rc__ table with integer rows whose
\* first value is not the echoed one.
C11_Witness ==
    /\ phase = "execute_done"
    /\ needs_rowcount
    /\ \E i \in 1..(Len(sets) - 1) :
         /\ sets[i].cols = <<"__rc__">>
         /\ row_count(sets[i]) > 1
         /\ get(sets[i], 0, 0).tag = "I64"
         /\ get(sets[i], 0, 0).v # message.n

(***************************************************************************)
(* Claims about execute_many                                               *)
(***************************************************************************)
\* C12: execute_many submits one batch per parameter set, in the order of
\* the parameter sets, each only after the previous one has completed; when
\* batch k fails the operation returns that error and no later batch is
\* submitted; when all succeed it returns unit after the last batch.
C12_ExecuteManySequential ==
    /\ [](many_pc \in {"loop", "batch", "returned"} =>
            /\ Len(submitted) <= Len(args_list)
            /\ \A k \in 1..Len(submitted) : submitted[k] = FinalSql(sql, args_list[k])
            /\ many_pc = "batch" => Len(submitted) >= 1
            /\ many_result.kind # "pending" => many_pc = "returned"
            /\ many_result.kind = "result" =>
                  Len(submitted) = Len(args_list) /\ many_result = set_result("value", 0))
    /\ [][ /\ submitted' # submitted =>
                /\ many_pc = "loop"
                /\ many_result.kind = "pending"
                /\ Len(submitted') = Len(submitted) + 1
           /\ many_result' # many_result =>
                \/ /\ many_pc = "batch"
                   /\ many_result'.kind = "exception"
                   /\ many_result'.val \in {to_pyerr(e) : e \in TabbyErrors}
                   /\ submitted' = submitted
                \/ /\ many_pc = "loop"
                   /\ many_result'.kind = "result"
                   /\ submitted' = submitted ]_vars

\* C12 witness: the call has returned the error of its first batch with a
\* different statement of a later parameter set left unsubmitted.
C12_Witness ==
    /\ many_pc = "returned"
    /\ many_result.kind = "exception"
    /\ Len(submitted) = 1
    /\ sqls # <<>>
    /\ sqls[1] # submitted[1]

(***************************************************************************)
(* Claims about parameter substitution and literals                        *)
(***************************************************************************)
IsDigit(c) == \E d \in DOMAIN Digit : Digit[d] = c

DigitValue(c) == (CHOOSE d \in DOMAIN Digit : Digit[d] = c) - 1

\* The number of digits a text begins with
RECURSIVE DigitRun(_)
DigitRun(s) == IF s # <<>> /\ IsDigit(Head(s)) THEN 1 + DigitRun(Tail(s)) ELSE 0

\* The number a sequence of digits denotes
RECURSIVE NatOfString(_)
NatOfString(s) ==
    IF s = <<>> THEN 0 ELSE 10 * NatOfString(SubSeq(s, 1, Len(s) - 1)) + DigitValue(s[Len(s)])

\* The template read once from left to right: each placeholder, "@p" with all
\* the digits that follow it, gives way to the literal of the parameter of
\* that index, and stays as it is when the list has no such parameter
RECURSIVE OnePass(_, _)
OnePass(s, ps) ==
    IF s = <<>> THEN <<>>
    ELSE LET n == IF Len(s) >= 2 /\ SubSeq(s, 1, 2) = <<"@", "p">>
                  THEN DigitRun(SubSeq(s, 3, Len(s))) ELSE 0
         IN  IF n = 0 THEN <<Head(s)>> \o OnePass(Tail(s), ps)
             ELSE LET k == NatOfString(SubSeq(s, 3, 2 + n))
                      rest == SubSeq(s, 3 + n, Len(s))
                  IN  (IF k \in 1..Len(ps) THEN py_to_sql_literal(ps[k])
                       ELSE SubSeq(s, 1, 2 + n)) \o OnePass(rest, ps)

\* C13: for every template and every parameter list, once substitution has
\* run, each occurrence of a placeholder @pK of the template has been replaced
\* by the literal of parameter K, and no lower-numbered placeholder was matched
\* inside a higher-numbered one (@p10 never becomes the literal of parameter 1
\* followed by 0).
C13_EachPlaceholderItsLiteral ==
    subst_i = 0 => result = OnePass(sql, params)

\* Every placeholder of a template, read as "@p" with all the digits that
\* follow it, has a parameter in the list
RECURSIVE EveryPlaceholderHasParam(_, _)
EveryPlaceholderHasParam(s, ps) ==
    IF s = <<>> THEN TRUE
    ELSE LET n == IF Len(s) >= 2 /\ SubSeq(s, 1, 2) = <<"@", "p">>
                  THEN DigitRun(SubSeq(s, 3, Len(s))) ELSE 0
         IN  IF n = 0 THEN EveryPlaceholderHasParam(Tail(s), ps)
             ELSE /\ NatOfString(SubSeq(s, 3, 2 + n)) \in 1..Len(ps)
                  /\ EveryPlaceholderHasParam(SubSeq(s, 3 + n, Len(s)), ps)

\* C23: substitution is a simultaneous replacement.  The text inserted for a
\* parameter is never scanned again: for a template whose placeholders all
\* have a parameter, the result is the template with every @pK replaced in
\* one pass by the literal of parameter K, also when a parameter's literal
\* contains the text of a lower-numbered placeholder.
C23_InsertedTextNotRescanned ==
    (subst_i = 0 /\ EveryPlaceholderHasParam(sql, params)) =>
        result = OnePass(sql, params)

\* A text with every single quote written twice
RECURSIVE Doubled(_)
Doubled(t) ==
    IF t = <<>> THEN <<>>
    ELSE (IF Head(t) = Quote THEN <<Quote, Quote>> ELSE <<Head(t)>>) \o Doubled(Tail(t))

\* Every run of single quotes of a text has even length
RECURSIVE EvenQuoteRuns(_)
EvenQuoteRuns(s) ==
    IF s = <<>> THEN TRUE
    ELSE IF Head(s) # Quote THEN EvenQuoteRuns(Tail(s))
    ELSE Len(s) >= 2 /\ s[2] = Quote /\ EvenQuoteRuns(SubSeq(s, 3, Len(s)))

\* A text with every run of single quotes cut to half its length
RECURSIVE Halved(_)
Halved(s) ==
    IF s = <<>> THEN <<>>
    ELSE IF Head(s) # Quote THEN <<Head(s)>> \o Halved(Tail(s))
    ELSE <<Quote>> \o Halved(SubSeq(s, 3, Len(s)))

\* The parameter of the iteration substitute_params has just run
LastParam == params[subst_i + 1]

\* C14: the literal of a text t is N' followed by t with every single quote
\* doubled, followed by '; so every run of single quotes between the
\* delimiters has even length and halving each run gives back t.
C14_TextLiteralDoublesQuotes ==
    (subst_i < Len(params) /\ LastParam.type = "str") =>
        LET inner == SubSeq(literal, 3, Len(literal) - 1) IN
        /\ literal = <<"N", Quote>> \o Doubled(LastParam.str) \o <<Quote>>
        /\ EvenQuoteRuns(inner)
        /\ Halved(inner) = LastParam.str

\* C14 witness: the literal of a text with two single quotes in a row has
\* been computed.
C14_Witness ==
    /\ subst_i < Len(params)
    /\ LastParam.type = "str"
    /\ \E k \in 1..(Len(LastParam.str) - 1) :
         LastParam.str[k] = Quote /\ LastParam.str[k + 1] = Quote
    /\ Len(literal) = Len(LastParam.str) + 5

(***************************************************************************)
(* Claims about the decoding of typed values                               *)
(***************************************************************************)
IsLeap(y) == (y % 4 = 0 /\ y % 100 # 0) \/ y % 400 = 0

DaysInMonth(y, m) ==
    IF m = 2 THEN (IF IsLeap(y) THEN 29 ELSE 28)
    ELSE IF m \in {4, 6, 9, 11} THEN 30 ELSE 31

ValidDate(y, m, d) == y \in 1..9999 /\ m \in 1..12 /\ d \in 1..DaysInMonth(y, m)

\* The days from 0001-01-01 to the first day of year y
DaysBeforeYear(y) == 365 * (y - 1) + (y - 1) \div 4 - (y - 1) \div 100 + (y - 1) \div 400

\* The days of year y before its month m
RECURSIVE DaysBeforeMonth(_, _)
DaysBeforeMonth(y, m) ==
    IF m = 1 THEN 0 ELSE DaysBeforeMonth(y, m - 1) + DaysInMonth(y, m - 1)

\* The proleptic-Gregorian encoding: days from 1970-01-01 to y-m-d
DaysFromCivil(y, m, d) ==
    DaysBeforeYear(y) + DaysBeforeMonth(y, m) + (d - 1) - DaysBeforeYear(1970)

\* C15: date decoding is the inverse of the proleptic-Gregorian day count.
\* The date decoded from a day count, negative counts included, is a valid
\* date (1 <= month <= 12, 1 <= day <= the length of the month), its day count
\* is the one decoded, and it is the valid date every date of that count equals.
C15_DateRoundTrip ==
    (compact_val.tag = "Date" /\ py_object # NoObject) =>
        /\ py_object.cls = "date"
        /\ DayOfEra(compact_val.unix_days) \in 0..146096
        /\ ValidDate(py_object.year, py_object.month, py_object.day)
        /\ DaysFromCivil(py_object.year, py_object.month, py_object.day) = compact_val.unix_days
        /\ \A y \in (py_object.year - 1)..(py_object.year + 1), m \in 1..12, d \in 1..31 :
             (ValidDate(y, m, d) /\ DaysFromCivil(y, m, d) = compact_val.unix_days) =>
                 (y = py_object.year /\ m = py_object.month /\ d = py_object.day)

\* C15 witness: a negative day count has been decoded to the 29th of
\* February of a leap year before the epoch.
C15_Witness ==
    /\ compact_val.tag = "Date"
    /\ compact_val.unix_days < 0
    /\ py_object # NoObject
    /\ py_object.month = 2
    /\ py_object.day = 29

\* The day count a decoded Date or DateTime value is a date of
DecodedDays(v) ==
    IF v.tag = "Date" THEN v.unix_days
    ELSE div_euclid(v.micros[1] + div_euclid(v.micros[2], 1000000), 86400)

\* C21 as claimed: date decoding bumps the year exactly when the derived month
\* is <= 3: the decoded year is y + 1 if m <= 3 and y otherwise, y being the
\* year computed from era and year-of-era and m the month of the March-based
\* reordering.
C21_YearBumpedThroughMarch ==
    (compact_val.tag \in {"Date", "DateTime"} /\ py_object # NoObject) =>
        LET y == EraYear(DecodedDays(compact_val))
            m == MarchMonth(DecodedDays(compact_val))
        IN  /\ py_object.month = m
            /\ py_object.year = IF m <= 3 THEN y + 1 ELSE y

\* C21 as amended: the year is bumped exactly when the derived month is <= 2
\* (January and February): the decoded year is y + 1 if m <= 2 and y
\* otherwise; a date in March keeps y.
C21_YearBumpedThroughFebruary ==
    (compact_val.tag \in {"Date", "DateTime"} /\ py_object # NoObject) =>
        LET y == EraYear(DecodedDays(compact_val))
            m == MarchMonth(DecodedDays(compact_val))
        IN  /\ py_object.month = m
            /\ m \in 1..12
            /\ py_object.year = IF m <= 2 THEN y + 1 ELSE y

\* C21 witness: a day count has been decoded to a date in February, whose
\* year is one more than the year computed from era and year-of-era.
C21_Witness ==
    /\ compact_val.tag = "Date"
    /\ py_object # NoObject
    /\ py_object.month = 2
    /\ py_object.year = EraYear(compact_val.unix_days) + 1

\* Two counts of microseconds held as <<s, u>> stand for the same number
SameCount(a, b) ==
    LET d == a[1] - b[1] IN d \in -2..2 /\ d * 1000000 = b[2] - a[2]

\* C16: timestamp decoding uses floor division.  For every microsecond count,
\* negative ones included, the decoded components satisfy 0 <= hour < 24,
\* 0 <= minute < 60, 0 <= second < 60, 0 <= microsecond < 1000000, the date is
\* a valid one, and days-of-date * 86400000000 + ((hour * 60 + minute) * 60 +
\* second) * 1000000 + microsecond is the count decoded.
C16_TimestampFloorDivision ==
    (compact_val.tag = "DateTime" /\ py_object # NoObject) =>
        /\ py_object.cls = "datetime"
        /\ py_object.hour \in 0..23
        /\ py_object.minute \in 0..59
        /\ py_object.second \in 0..59
        /\ py_object.microsecond \in 0..999999
        /\ ValidDate(py_object.year, py_object.month, py_object.day)
        /\ SameCount(<<DaysFromCivil(py_object.year, py_object.month, py_object.day) * 86400
                         + (py_object.hour * 60 + py_object.minute) * 60 + py_object.second,
                       py_object.microsecond>>,
                     compact_val.micros)

\* C16 witness: a count before the epoch that is not a whole number of
\* seconds has been decoded, to the last hour of a day.
C16_Witness ==
    /\ compact_val.tag = "DateTime"
    /\ compact_val.micros[1] < 0
    /\ compact_val.micros[2] < 0
    /\ py_object # NoObject
    /\ py_object.hour = 23
    /\ py_object.microsecond > 0
    /\ py_object.year < 1970

\* The position of the decimal point of a text (0: none)
PointAt(t) == IF \E k \in DOMAIN t : t[k] = "." THEN CHOOSE k \in DOMAIN t : t[k] = "." ELSE 0

\* A decimal text without its sign
Unsigned(t) == IF t # <<>> /\ Head(t) = "-" THEN Tail(t) ELSE t

IntegerDigits(t) ==
    LET u == Unsigned(t) IN IF PointAt(u) = 0 THEN u ELSE SubSeq(u, 1, PointAt(u) - 1)

FractionDigits(t) ==
    LET u == Unsigned(t) IN IF PointAt(u) = 0 THEN <<>> ELSE SubSeq(u, PointAt(u) + 1, Len(u))

AllDigits(t) == \A k \in DOMAIN t : IsDigit(t[k])

\* The digits of a text of digits after its leading zeros, one digit at least
RECURSIVE Significant(_)
Significant(t) == IF Len(t) > 1 /\ Head(t) = "0" THEN Significant(Tail(t)) ELSE t

\* The mantissa a decimal text denotes at the scale of its fraction digits
ParsedMantissa(t) ==
    LET n == NatOfString(Significant(IntegerDigits(t) \o FractionDigits(t)))
    IN  IF t # <<>> /\ Head(t) = "-" THEN -n ELSE n

\* C17: decimal rendering is exact.  The text of mantissa m at scale s begins
\* with - exactly when m < 0, has no decimal point when s = 0 and otherwise at
\* least one integer digit and exactly s fraction digits, and read back it
\* gives m and s, so it denotes m / 10^s.
C17_DecimalExact ==
    (compact_val.tag = "Decimal" /\ py_object # NoObject) =>
        LET t == py_object.text IN
        /\ py_object.cls = "Decimal"
        /\ (Head(t) = "-") <=> (compact_val.value < 0)
        /\ AllDigits(IntegerDigits(t)) /\ AllDigits(FractionDigits(t))
        /\ Len(IntegerDigits(t)) >= 1
        /\ (PointAt(t) = 0) <=> (compact_val.scale = 0)
        /\ Len(FractionDigits(t)) = compact_val.scale
        /\ ParsedMantissa(t) = compact_val.value

\* C17 witness: -5 at scale 3 has been rendered as -0.005.
C17_Witness ==
    /\ compact_val.tag = "Decimal"
    /\ compact_val.value = -5
    /\ compact_val.scale = 3
    /\ py_object = PyDecimal(<<"-", "0", ".", "0", "0", "5">>)

====
